---- MODULE Spec2Model ----
(***************************************************************************)
(* Model of qpython3/qwriter.py: the QWriter serializer of the q/kdb+ IPC  *)
(* protocol.                                                               *)
(*                                                                         *)
(* Representation of Python values.  Every value is a record whose field k *)
(* is the name of its exact runtime type (type(data).__name__).  Text      *)
(* (str) is a sequence of code points, bytes / numpy.bytes_ are sequences  *)
(* of 0..255.  Fixed-width numpy integers and numpy temporal values are    *)
(* the little-endian two's-complement byte sequence of their storage, so   *)
(* that 64-bit quantities are exact.  A byte buffer is a sequence of       *)
(* 0..255; an encoder returns the sequence of chunks it handed to          *)
(* self._buffer.write, one chunk per call, and the exception it raised.    *)
(***************************************************************************)
EXTENDS Integers, Sequences, FiniteSets, TLC

\* ------------------------------------------- wire tags (qtype.py constants)
QNULL == 101
QGENERAL_LIST == 0
QBOOL == -1
QGUID == -2
QSHORT == -5
QLONG == -7
QCHAR == -10
QSTRING == 10
QSYMBOL == -11
QSYMBOL_LIST == 11
QTIMESTAMP == -12
QTIMESTAMP_LIST == 12
QDATE == -14
QTIMESPAN == -16
QTIMESPAN_LIST == 16
QTABLE == 98
QDICTIONARY == 99
QLAMBDA == 100
QPROJECTION == 104
QERROR == -128

\* tag -> struct format of the atom's fixed-width layout
STRUCT_MAP ==
  (QBOOL :> "b") @@ (QSHORT :> "h") @@ (QLONG :> "q") @@ (QCHAR :> "b") @@
  (QDATE :> "i") @@ (QTIMESPAN :> "q") @@ (QTIMESTAMP :> "q")

\* exact runtime type -> atom tag
Q_TYPE ==
  ("bool" :> QBOOL) @@ ("bool_" :> QBOOL) @@ ("UUID" :> QGUID) @@
  ("int16" :> QSHORT) @@ ("int64" :> QLONG) @@ ("bytes_" :> QSYMBOL)

\* str(dtype) of a numpy temporal -> atom tag
TEMPORAL_PY_TYPE ==
  ("datetime64[D]" :> QDATE) @@ ("datetime64[ns]" :> QTIMESTAMP) @@
  ("timedelta64[ns]" :> QTIMESPAN)

\* process-wide default conversion options
CONVERSION_OPTIONS ==
  [raw |-> FALSE, numpy_temporals |-> FALSE, pandas |-> FALSE,
   single_char_strings |-> FALSE]

\* MetaData.union_dict: the defaults overridden key by key; neither operand
\* is modified
union_dict(defaults, kw) ==
  [key \in (DOMAIN defaults) \cup (DOMAIN kw) |->
     IF key \in DOMAIN kw THEN kw[key] ELSE defaults[key]]

\* ------------------------------------------------------------ byte helpers
RECURSIVE Flatten(_)
Flatten(chunks) ==
  IF chunks = <<>> THEN <<>> ELSE Head(chunks) \o Flatten(Tail(chunks))

Reverse(s) == [i \in 1..Len(s) |-> s[Len(s) + 1 - i]]

\* little-endian two's complement of n on w bytes
RECURSIVE LE(_, _)
LE(n, w) ==
  IF w = 0 THEN <<>> ELSE <<n % 256>> \o LE((n - (n % 256)) \div 256, w - 1)

\* host byte order of a little-endian byte sequence
Host(le, byteorder) == IF byteorder = "little" THEN le ELSE Reverse(le)

\* value of a host-order 4-byte field (non-negative, below 2^31)
RECURSIVE LEValue(_)
LEValue(le) == IF le = <<>> THEN 0 ELSE Head(le) + 256 * LEValue(Tail(le))

Unpack32(field, byteorder) == LEValue(Host(field, byteorder))

\* struct.pack('b', tag): a signed byte
SByte(q) == (q + 256) % 256

Width(fmt) ==
  CASE fmt = "b" -> 1 [] fmt = "h" -> 2 [] fmt = "i" -> 4 [] fmt = "q" -> 8

\* struct.pack(fmt, n) of a Python int: ok = FALSE is struct.error
struct_pack(fmt, n, byteorder) ==
  LET fits == CASE fmt = "b" -> n >= -128 /\ n <= 127
                [] fmt = "h" -> n >= -32768 /\ n <= 32767
                [] OTHER -> TRUE
  IN [ok |-> fits,
      bytes |-> IF fits THEN Host(LE(n, Width(fmt)), byteorder) ELSE <<>>]

\* struct.pack(fmt, x) of a fixed-width numpy integer x given by its
\* little-endian storage: sign-extended or narrowed to the format's width
SignByte(le) == IF le[Len(le)] >= 128 THEN 255 ELSE 0

struct_pack_np(fmt, le, byteorder) ==
  LET w    == Width(fmt)
      ext  == le \o [i \in 1..(IF w > Len(le) THEN w - Len(le) ELSE 0)
                       |-> SignByte(le)]
      low  == SubSeq(ext, 1, w)
      fits == \A i \in (w + 1)..Len(ext) : ext[i] = SignByte(low)
  IN [ok |-> fits, bytes |-> IF fits THEN Host(low, byteorder) ELSE <<>>]

\* struct.pack('=bxi', tag, n): tag, pad byte, 4-byte count
pack_bxi(tag, n, byteorder) == <<SByte(tag), 0>> \o Host(LE(n, 4), byteorder)

\* struct.pack('=bi', tag, n): tag, 4-byte count, no pad byte
pack_bi(tag, n, byteorder) == <<SByte(tag)>> \o Host(LE(n, 4), byteorder)

\* str.encode(encoding): ok = FALSE is UnicodeEncodeError
EncodeChar(c, encoding) ==
  IF encoding = "latin-1"
  THEN [ok |-> c <= 255, bytes |-> IF c <= 255 THEN <<c>> ELSE <<>>]
  ELSE IF c >= 55296 /\ c <= 57343
  THEN [ok |-> FALSE, bytes |-> <<>>]
  ELSE [ok |-> TRUE,
        bytes |-> IF c < 128 THEN <<c>>
                  ELSE IF c < 2048
                  THEN <<192 + (c \div 64), 128 + (c % 64)>>
                  ELSE IF c < 65536
                  THEN <<224 + (c \div 4096), 128 + ((c \div 64) % 64),
                         128 + (c % 64)>>
                  ELSE <<240 + (c \div 262144), 128 + ((c \div 4096) % 64),
                         128 + ((c \div 64) % 64), 128 + (c % 64)>>]

RECURSIVE encode(_, _)
encode(s, encoding) ==
  IF s = <<>> THEN [ok |-> TRUE, bytes |-> <<>>]
  ELSE LET h == EncodeChar(Head(s), encoding)
           t == encode(Tail(s), encoding)
       IN [ok |-> h.ok /\ t.ok,
           bytes |-> IF h.ok /\ t.ok THEN h.bytes \o t.bytes ELSE <<>>]

\* ------------------------------------------------------- temporal converter
RECURSIVE SubLE(_, _, _)
SubLE(a, b, borrow) ==
  IF a = <<>> THEN <<>>
  ELSE LET d == a[1] - b[1] - borrow
       IN <<d % 256>> \o SubLE(Tail(a), Tail(b), IF d < 0 THEN 1 ELSE 0)

\* 2000-01-01 as days and as nanoseconds since 1970-01-01, 64-bit storage
EpochDays == LE(10957, 8)
EpochNs == <<0, 0, 67, 82, 207, 76, 35, 13>>

\* to_raw_qtemporal: the count relative to the q epoch, in 64-bit storage
to_raw_qtemporal(i8, qtype) ==
  CASE qtype = QTIMESTAMP -> SubLE(i8, EpochNs, 0)
    [] qtype = QDATE -> SubLE(i8, EpochDays, 0)
    [] OTHER -> i8

\* ------------------------------------------------------------ exceptions
NoError == [exc |-> "none", msg |-> "", arg |-> ""]
Unsupported(kind) ==
  [exc |-> "QWriterException", msg |-> "Unable to serialize type", arg |-> kind]
VersionViolation(what) ==
  [exc |-> "QWriterException", msg |-> "kdb+ protocol version violation",
   arg |-> what]
StructError == [exc |-> "struct.error", msg |-> "", arg |-> ""]
UnicodeEncodeError == [exc |-> "UnicodeEncodeError", msg |-> "", arg |-> ""]
AttributeError(attr) == [exc |-> "AttributeError", msg |-> "", arg |-> attr]

\* hex(n) of a tag
HexDigits == <<"0", "1", "2", "3", "4", "5", "6", "7", "8", "9",
               "a", "b", "c", "d", "e", "f">>
hex(n) ==
  LET a == IF n < 0 THEN 0 - n ELSE n
      d == IF a < 16 THEN HexDigits[a + 1]
           ELSE HexDigits[(a \div 16) + 1] \o HexDigits[(a % 16) + 1]
  IN (IF n < 0 THEN "-0x" ELSE "0x") \o d

\* an encoder's outcome: the chunks written, and the exception raised
Wrote(chunks) == [w |-> chunks, err |-> NoError]
Raised(chunks, e) == [w |-> chunks, err |-> e]
Failed(r) == r.err.exc # "none"
Then(r1, r2) ==
  IF Failed(r1) THEN r1 ELSE [w |-> r1.w \o r2.w, err |-> r2.err]

\* ------------------------------------------------------ external collaborators
abs(n) == IF n < 0 THEN 0 - n ELSE n

ExceptionTypes == {"OSError", "KeyError"}

\* cls.__name__ as text
ClassName(name) ==
  CASE name = "OSError" -> <<79, 83, 69, 114, 114, 111, 114>>
    [] name = "KeyError" -> <<75, 101, 121, 69, 114, 114, 111, 114>>
TemporalDtypeTypes == {"datetime64", "timedelta64"}

\* dtype.type of an array: the scalar type of its elements
DtypeType(dtype) ==
  CASE dtype \in {"datetime64[D]", "datetime64[ns]", "datetime64[Y]"}
         -> "datetime64"
    [] dtype = "timedelta64[ns]" -> "timedelta64"
    [] dtype \in {"S", "S1"} -> "bytes_"
    [] dtype = "O" -> "object_"
    [] OTHER -> dtype

\* whether the object carries a meta attribute (QList and its subclasses)
HasMeta(data) == data.k \in {"QList", "QTemporalList"}

\* qcollection.get_list_qtype: the element tag of an array
get_list_qtype(data) ==
  IF HasMeta(data) THEN 0 - abs(data.meta.qtype)
  ELSE IF data.dtype = "S1" THEN QCHAR
  ELSE IF DtypeType(data.dtype) \in DOMAIN Q_TYPE
  THEN Q_TYPE[DtypeType(data.dtype)]
  ELSE IF DtypeType(data.dtype) \in TemporalDtypeTypes
          /\ data.dtype \in DOMAIN TEMPORAL_PY_TYPE
  THEN TEMPORAL_PY_TYPE[data.dtype]
  ELSE IF data.items[1].k \in DOMAIN Q_TYPE THEN Q_TYPE[data.items[1].k]
  ELSE QGENERAL_LIST

\* qcollection.qlist(array, qtype = ...): the array with its declared tag
qlist(items, dtype, qtype) ==
  [k |-> "QList", dtype |-> dtype, items |-> items, meta |-> [qtype |-> qtype]]

\* ndarray.tostring(): the elements' storage, contiguous, in host order
tostring(data, byteorder) ==
  IF data.dtype = "S1" THEN data.items
  ELSE Flatten([i \in 1..Len(data.items) |-> Host(data.items[i], byteorder)])

\* qtemporal.array_to_raw_qtemporal: every element converted, stored on the
\* tag's width
array_to_raw_qtemporal(data, qtype) ==
  LET w == Width(STRUCT_MAP[qtype])
  IN [k |-> "ndarray", dtype |-> IF w = 4 THEN "int32" ELSE "int64",
      items |-> [i \in 1..Len(data.items) |->
                   SubSeq(to_raw_qtemporal(data.items[i], qtype), 1, w)]]

\* ------------------------------------------------------------- the encoders
\* self is the writer as the encoders read it: protocol_version, encoding,
\* options (self._options), writer_map (QWriter._writer_map), byteorder
\* (sys.byteorder)
RECURSIVE _write(_, _)

_get_writer(self, data_type) ==
  IF data_type \in DOMAIN self.writer_map THEN self.writer_map[data_type]
  ELSE "None"

_write_null(self) == Wrote(<< <<QNULL, 0>> >>)

_write_error(data, self) ==
  LET msg == IF data.k # "type"
             THEN (IF data.args # <<>> THEN data.args[1]
                   ELSE ClassName(data.k))
             ELSE ClassName(data.name)
      e   == encode(msg, self.encoding)
  IN IF e.ok THEN Wrote(<< <<SByte(QERROR)>>, e.bytes, <<0>> >>)
     ELSE Raised(<< <<SByte(QERROR)>> >>, UnicodeEncodeError)

_write_atom(data, qtype, self) ==
  LET tag == <<SByte(qtype)>>
  IN IF qtype \notin DOMAIN STRUCT_MAP
     THEN Raised(<<tag>>, Unsupported(data.k))
     ELSE LET fmt == STRUCT_MAP[qtype]
              p   == CASE data.k \in {"bool", "bool_"}
                            -> struct_pack(fmt, IF data.v THEN 1 ELSE 0,
                                           self.byteorder)
                       [] data.k = "int"
                            -> struct_pack(fmt, data.v, self.byteorder)
                       [] OTHER
                            -> struct_pack_np(fmt, data.le, self.byteorder)
          IN IF p.ok THEN Wrote(<<tag, p.bytes>>)
             ELSE Raised(<<tag>>, StructError)

RECURSIVE WriteAll(_, _)
WriteAll(items, self) ==
  IF items = <<>> THEN Wrote(<<>>)
  ELSE Then(_write(Head(items), self), WriteAll(Tail(items), self))

_write_generic_list(data, self) ==
  Then(Wrote(<<pack_bxi(QGENERAL_LIST, Len(data.items), self.byteorder)>>),
       WriteAll(data.items, self))

\* ord(data) of a one-character str or a one-byte bytes
ord(data) == [k |-> "int", v |-> data.s[1]]

\* a string encoder that collapses every one-character string, whatever the
\* option
CollapsingString(data, self) ==
  IF Len(data.s) = 1 THEN _write_atom(ord(data), QCHAR, self)
  ELSE LET hdr == pack_bxi(QSTRING, Len(data.s), self.byteorder)
       IN IF data.k = "str"
          THEN LET e == encode(data.s, self.encoding)
               IN IF e.ok THEN Wrote(<<hdr, e.bytes>>)
                  ELSE Raised(<<hdr>>, UnicodeEncodeError)
          ELSE Wrote(<<hdr, data.s>>)

_write_string(data, self) ==
  IF ~self.options.single_char_strings /\ Len(data.s) = 1
  THEN _write_atom(ord(data), QCHAR, self)
  ELSE LET hdr == pack_bxi(QSTRING, Len(data.s), self.byteorder)
       IN IF data.k = "str"
          THEN LET e == encode(data.s, self.encoding)
               IN IF e.ok THEN Wrote(<<hdr, e.bytes>>)
                  ELSE Raised(<<hdr>>, UnicodeEncodeError)
          ELSE Wrote(<<hdr, data.s>>)

_write_symbol(data, self) ==
  Wrote(<< <<SByte(QSYMBOL)>> >>
        \o (IF data.s # <<>> THEN <<data.s>> ELSE <<>>)
        \o << <<0>> >>)

_write_guid(data, self) ==
  IF self.protocol_version < 3 THEN Raised(<<>>, VersionViolation("Guid"))
  ELSE Wrote(<< <<SByte(QGUID)>>, data.bytes >>)

_write_temporal(data, self) ==
  LET qtype == data.meta.qtype
  IN IF self.protocol_version < 1 /\ (qtype = QTIMESPAN \/ qtype = QTIMESTAMP)
     THEN Raised(<<>>, VersionViolation(hex(qtype)))
     ELSE IF qtype \notin DOMAIN STRUCT_MAP
     THEN Raised(<< <<SByte(qtype)>> >>, Unsupported(data.k))
     ELSE LET p == struct_pack_np(STRUCT_MAP[qtype],
                                  to_raw_qtemporal(data.raw.i8, qtype),
                                  self.byteorder)
          IN IF p.ok THEN Wrote(<< <<SByte(qtype)>>, p.bytes >>)
             ELSE Raised(<< <<SByte(qtype)>> >>, StructError)

_write_numpy_temporal(data, self) ==
  IF data.dtype \notin DOMAIN TEMPORAL_PY_TYPE
  THEN Raised(<<>>, Unsupported(data.dtype))
  ELSE LET qtype == TEMPORAL_PY_TYPE[data.dtype]
       IN IF self.protocol_version < 1
             /\ (qtype = QTIMESPAN \/ qtype = QTIMESTAMP)
          THEN Raised(<<>>, VersionViolation(hex(qtype)))
          ELSE IF qtype \notin DOMAIN STRUCT_MAP
          THEN Raised(<< <<SByte(qtype)>> >>, Unsupported(data.dtype))
          ELSE LET p == struct_pack_np(STRUCT_MAP[qtype],
                                       to_raw_qtemporal(data.i8, qtype),
                                       self.byteorder)
               IN IF p.ok THEN Wrote(<< <<SByte(qtype)>>, p.bytes >>)
                  ELSE Raised(<< <<SByte(qtype)>> >>, StructError)

_write_lambda(data, self) ==
  Then(Wrote(<< <<SByte(QLAMBDA)>>, <<0>> >>),
       _write_string([k |-> "str", s |-> data.expression], self))

_write_projection(data, self) ==
  Then(Wrote(<<pack_bi(QPROJECTION, Len(data.parameters), self.byteorder)>>),
       WriteAll(data.parameters, self))

_write_dictionary(data, self) ==
  Then(Wrote(<< <<SByte(QDICTIONARY)>> >>),
       Then(_write(data.keys, self), _write(data.values, self)))

\* for symbol in data: the symbol if non-empty, then a zero byte
RECURSIVE SymbolChunks(_)
SymbolChunks(items) ==
  IF items = <<>> THEN <<>>
  ELSE (IF Head(items) # <<>> THEN <<Head(items)>> ELSE <<>>)
       \o << <<0>> >> \o SymbolChunks(Tail(items))

\* qtype is <<>> for the default None, <<tag>> for an explicit tag
_write_list(data, qtype, self) ==
  LET qt == IF qtype # <<>> THEN 0 - abs(qtype[1]) ELSE get_list_qtype(data)
  IN IF self.protocol_version < 1
        /\ (abs(qt) = QTIMESPAN_LIST \/ abs(qt) = QTIMESTAMP_LIST)
     THEN (IF HasMeta(data)
           THEN Raised(<<>>, VersionViolation(hex(data.meta.qtype)))
           ELSE Raised(<<>>, AttributeError("meta")))
     ELSE IF qt = QGENERAL_LIST THEN _write_generic_list(data, self)
     ELSE IF qt = QCHAR
     THEN _write_string([k |-> "bytes", s |-> tostring(data, self.byteorder)],
                        self)
     ELSE LET hdr == pack_bxi(0 - qt, Len(data.items), self.byteorder)
              temporal == DtypeType(data.dtype) \in TemporalDtypeTypes
          IN IF temporal /\ qt \notin {QDATE, QTIMESTAMP, QTIMESPAN}
             THEN Raised(<<hdr>>, [exc |-> "ValueError", msg |-> "",
                                   arg |-> data.dtype])
             ELSE LET raw == IF temporal THEN array_to_raw_qtemporal(data, qt)
                             ELSE data
                  IN IF qt = QSYMBOL
                     THEN Wrote(<<hdr>> \o SymbolChunks(raw.items))
                     ELSE IF qt = QGUID
                     THEN (IF self.protocol_version < 3
                           THEN Raised(<<hdr>>, VersionViolation("Guid"))
                           ELSE Wrote(<<hdr>> \o
                                  [i \in 1..Len(raw.items) |->
                                     raw.items[i].bytes]))
                     ELSE Wrote(<<hdr, tostring(raw, self.byteorder)>>)

RECURSIVE WriteColumns(_, _, _)
WriteColumns(data, i, self) ==
  IF i > Len(data.names) THEN Wrote(<<>>)
  ELSE Then(_write_list(data.columns[i], <<data.meta[i]>>, self),
            WriteColumns(data, i + 1, self))

_write_table(data, self) ==
  Then(Wrote(<< <<SByte(QTABLE), 0, SByte(QDICTIONARY)>> >>),
  Then(_write(qlist(data.names, "S", QSYMBOL_LIST), self),
  Then(Wrote(<<pack_bxi(QGENERAL_LIST, Len(data.names), self.byteorder)>>),
       WriteColumns(data, 1, self))))

\* isinstance(data, Exception), or an exception class
IsException(data) ==
  \/ data.k \in ExceptionTypes
  \/ data.k = "type" /\ data.name \in ExceptionTypes

DataType(data) == IF IsException(data) THEN "Exception" ELSE data.k

\* a dispatcher that consults the tag catalogue before the registered encoders
CatalogueFirstPath(data, self) ==
  IF data.k = "NoneType" THEN "_write_null"
  ELSE IF IsException(data) THEN "_write_error"
  ELSE IF data.k \in DOMAIN Q_TYPE /\ Q_TYPE[data.k] # 0 THEN "_write_atom"
  ELSE LET writer == _get_writer(self, data.k)
       IN IF writer # "None" THEN writer ELSE "raise"

\* the encoder the dispatcher selects for a value
SelectedPath(data, self) ==
  IF data.k = "NoneType" THEN "_write_null"
  ELSE LET writer == _get_writer(self, DataType(data))
       IN IF writer # "None" THEN writer
          ELSE IF data.k \in DOMAIN Q_TYPE /\ Q_TYPE[data.k] # 0
          THEN "_write_atom"
          ELSE "raise"

_write(data, self) ==
  LET path == SelectedPath(data, self)
  IN CASE path = "_write_null" -> _write_null(self)
       [] path = "_write_error" -> _write_error(data, self)
       [] path = "_write_generic_list" -> _write_generic_list(data, self)
       [] path = "_write_string" -> _write_string(data, self)
       [] path = "_write_symbol" -> _write_symbol(data, self)
       [] path = "_write_guid" -> _write_guid(data, self)
       [] path = "_write_temporal" -> _write_temporal(data, self)
       [] path = "_write_numpy_temporal" -> _write_numpy_temporal(data, self)
       [] path = "_write_lambda" -> _write_lambda(data, self)
       [] path = "_write_projection" -> _write_projection(data, self)
       [] path = "_write_dictionary" -> _write_dictionary(data, self)
       [] path = "_write_table" -> _write_table(data, self)
       [] path = "_write_list" -> _write_list(data, <<>>, self)
       [] path = "_write_atom" -> _write_atom(data, Q_TYPE[data.k], self)
       [] OTHER -> Raised(<<>>, Unsupported(data.k))

\* the @serialize registrations, as the class body leaves them
WriterMapAtImport ==
  ("Exception" :> "_write_error") @@
  ("tuple" :> "_write_generic_list") @@ ("list" :> "_write_generic_list") @@
  ("str" :> "_write_string") @@ ("bytes" :> "_write_string") @@
  ("bytes_" :> "_write_symbol") @@ ("UUID" :> "_write_guid") @@
  ("QTemporal" :> "_write_temporal") @@
  ("datetime64" :> "_write_numpy_temporal") @@
  ("timedelta64" :> "_write_numpy_temporal") @@
  ("QLambda" :> "_write_lambda") @@ ("QProjection" :> "_write_projection") @@
  ("QDictionary" :> "_write_dictionary") @@
  ("QKeyedTable" :> "_write_dictionary") @@ ("QTable" :> "_write_table") @@
  ("ndarray" :> "_write_list") @@ ("QList" :> "_write_list") @@
  ("QTemporalList" :> "_write_list")


\* ------------------------------------------------------------ QWriter.write
\* '\1' if sys.byteorder == 'little' else '\0'
ENDIANESS(byteorder) == IF byteorder = "little" THEN 1 ELSE 0

\* self._buffer = BytesIO(): the call's buffer, whatever the previous one held
BytesIO(previous) == <<>>

\* options merged over what the previous call left in self._options
LeakyOptions(previous, defaults, kw) ==
  union_dict(IF previous = <<>> THEN defaults ELSE previous, kw)

\* MetaData(**CONVERSION_OPTIONS.union_dict(**options)): the call's options,
\* whatever self._options held
EffectiveOptions(previous, defaults, kw) == union_dict(defaults, kw)

\* a header with eight placeholder characters
TenByteHeader(msg_type, encoding, byteorder) ==
  encode(<<ENDIANESS(byteorder), msg_type, 0, 0, 0, 0, 0, 0, 0, 0>>,
         encoding).bytes

\* the header text, encoded: marker, message type, six zero characters
Header(msg_type, encoding, byteorder) ==
  encode(<<ENDIANESS(byteorder), msg_type, 0, 0, 0, 0, 0, 0>>, encoding).bytes

\* the size of the payload alone
PayloadSize(buf) == Len(buf) - 8

\* self._buffer.tell() after the payload: the end of the buffer
data_size(buf) == Len(buf)

\* seek(offset) then write(bytes) on a BytesIO
Overwrite(buf, offset, bytes) ==
  LET n == IF Len(buf) > offset + Len(bytes) THEN Len(buf)
           ELSE offset + Len(bytes)
  IN [i \in 1..n |->
        IF i > offset /\ i <= offset + Len(bytes) THEN bytes[i - offset]
        ELSE IF i <= Len(buf) THEN buf[i] ELSE 0]

\* update message size
PatchSize(buf, byteorder) ==
  Overwrite(buf, 4, struct_pack("i", data_size(buf), byteorder).bytes)

\* the writer as the encoders read it during one call
EncoderView(w, opts, map, byteorder) ==
  [protocol_version |-> w.protocol_version, encoding |-> w.encoding,
   options |-> opts, writer_map |-> map, byteorder |-> byteorder]

\* ------------------------------------------------------------------ inputs
MaxStrLen == 2

A == 65
Euro == 8364

RECURSIVE Texts(_, _)
Texts(chars, n) ==
  IF n = 0 THEN {<<>>}
  ELSE Texts(chars, n - 1)
       \cup {<<c>> \o s : c \in chars,
                          s \in {u \in Texts(chars, n - 1) : Len(u) = n - 1}}

None == [k |-> "NoneType"]
Str(s) == [k |-> "str", s |-> s]
Bytes(s) == [k |-> "bytes", s |-> s]
Symbol(s) == [k |-> "bytes_", s |-> s]
Int16(n) == [k |-> "int16", le |-> LE(n, 2)]
Int64(n) == [k |-> "int64", le |-> LE(n, 8)]
List(items) == [k |-> "list", items |-> items]
Array(dtype, items) == [k |-> "ndarray", dtype |-> dtype, items |-> items]
Guid == [k |-> "UUID", bytes |-> [i \in 1..16 |-> i]]
Datetime64(dtype, i8) == [k |-> "datetime64", dtype |-> dtype, i8 |-> i8]
QTemporalOf(raw, qtype) ==
  [k |-> "QTemporal", raw |-> raw, meta |-> [qtype |-> qtype]]
Table(names, columns, meta) ==
  [k |-> "QTable", names |-> names, columns |-> columns, meta |-> meta]
Unclassified == [k |-> "complex"]

\* 2000-01-01T00:00:00.000000001 and 2000-01-02
Ns2000 == SubLE(EpochNs, LE(-1, 8), 0)
Day2000 == LE(10958, 8)

Scalars ==
  {None, Unclassified, [k |-> "type", name |-> "int"],
   [k |-> "OSError", args |-> <<>>],
   [k |-> "KeyError", args |-> <<<<A, Euro>>>>],
   [k |-> "type", name |-> "KeyError"],
   [k |-> "bool", v |-> TRUE], Int16(-2), Guid,
   Symbol(<<>>), Symbol(<<A, A>>),
   Datetime64("datetime64[ns]", Ns2000), Datetime64("datetime64[Y]", LE(30, 8)),
   QTemporalOf(Datetime64("datetime64[ns]", Ns2000), QTIMESTAMP),
   QTemporalOf(Datetime64("datetime64[D]", Day2000), QDATE),
   QTemporalOf(Datetime64("datetime64[D]", Day2000), QGUID)}
  \cup {Str(s) : s \in Texts({A, Euro}, MaxStrLen)}
  \cup {Str(<<128512>>), Str(<<A, 55296>>)}
  \cup {Bytes(s) : s \in Texts({A}, MaxStrLen)}

Arrays ==
  {Array("int16", <<>>), Array("S1", <<A>>),
   Array("datetime64[ns]", <<Ns2000>>),
   qlist(<<<<A>>, <<>>, <<A, A>>>>, "S", QSYMBOL_LIST),
   qlist(<<Guid, Guid>>, "O", 2),
   qlist(<<Str(<<A>>), None>>, "O", QGENERAL_LIST),
   [k |-> "QTemporalList", dtype |-> "timedelta64[ns]", items |-> <<LE(7, 8)>>,
    meta |-> [qtype |-> QTIMESPAN_LIST]]}

\* tables of 0, 1 and 2 rows with a short, a symbol and a char column
\* (declared tags 5, 11, 10), and tables with a timestamp and a GUID column
RowTables ==
  {Table(<<<<97>>, <<98>>, <<99>>>>,
         <<Array("int16", [i \in 1..n |-> LE(i, 2)]),
           Array("S", [i \in 1..n |-> <<A>>]),
           Array("S1", [i \in 1..n |-> A])>>,
         <<5, 11, 10>>) : n \in 0..2}

Tables ==
  RowTables
  \cup {Table(<<<<116>>>>, <<Array("datetime64[ns]", <<Ns2000>>)>>, <<12>>),
        Table(<<<<103>>>>, <<Array("O", <<Guid>>)>>, <<2>>)}

Composites ==
  {List(<<>>), List(<<None, Str(<<A>>)>>),
   List(<<List(<<Str(<<A, A>>)>>), Int16(3)>>),
   List(<<Str(<<A, A>>), Unclassified, Str(<<A>>)>>),
   [k |-> "tuple", items |-> <<Str(<<Euro>>)>>],
   [k |-> "QLambda", expression |-> <<123, 125>>],
   [k |-> "QProjection",
    parameters |-> <<[k |-> "QLambda", expression |-> <<123, 125>>],
                     Int64(1)>>],
   [k |-> "QDictionary",
    keys |-> qlist(<<<<A>>, <<>>, <<A, A>>>>, "S", QSYMBOL_LIST),
    values |-> Array("int16", <<LE(1, 2), LE(-2, 2)>>)],
   [k |-> "QKeyedTable",
    keys |-> Table(<<<<107>>>>, <<Array("int16", <<LE(1, 2)>>)>>, <<5>>),
    values |-> Table(<<<<118>>>>, <<Array("S", <<<<A>>>>)>>, <<11>>)]}

Values == Scalars \cup Arrays \cup Tables \cup Composites

\* MessageType.ASYNC, MessageType.SYNC
MessageTypes == {0, 1}

\* the keyword options of a call: none, or single_char_strings
Keywords == {<<>>, [single_char_strings |-> TRUE]}

ProtocolVersions == {0, 1, 3}
Encodings == {"latin-1", "utf-8"}
ByteOrders == {"little", "big"}

\* lines 76-88 of write on writer w: the buffer and options the call leaves in
\* the instance, the exception raised, the finished message
Serialize(w, defaults, map, byteorder, data, msg_type, kw) ==
  LET opts == EffectiveOptions(w.options, defaults, kw)
      b1   == BytesIO(w.buffer) \o Header(msg_type, w.encoding, byteorder)
      r    == _write(data, EncoderView(w, opts, map, byteorder))
      b2   == b1 \o Flatten(r.w)
      b3   == IF Failed(r) THEN b2 ELSE PatchSize(b2, byteorder)
  IN [buffer |-> b3, options |-> opts, err |-> r.err,
      path |-> SelectedPath(data, EncoderView(w, opts, map, byteorder))]

\* a flush that does not depend on the encoding having succeeded
FlushAlways(stream, out) == IF stream THEN <<out.buffer>> ELSE <<>>

\* lines 91-92: the sendall invocations of the call, each by its argument
sendall(stream, out) ==
  IF ~Failed(out) /\ stream THEN <<out.buffer>> ELSE <<>>

\* what the caller gets: an exception, None (sent), or the bytes
Outcome(stream, out) ==
  IF Failed(out) THEN [kind |-> "raised", err |-> out.err, value |-> <<>>]
  ELSE IF stream THEN [kind |-> "None", err |-> NoError, value |-> <<>>]
  ELSE [kind |-> "bytes", err |-> NoError, value |-> out.buffer]


\* ------------------------------------------------------------------- state
VARIABLES
  byteorder,          \* sys.byteorder of the host
  writer_map,         \* QWriter._writer_map, shared by all instances
  conversion_options, \* CONVERSION_OPTIONS, shared by the process
  self,               \* the writer: _stream, _protocol_version, _encoding,
                      \* _buffer, _options
  call,               \* the arguments of the last write call, and whether
                      \* the call before it had set single_char_strings
  result,             \* what the last write call gave its caller
  sent,               \* the arguments of the sendall invocations it made
  writers,            \* the writers used concurrently, one per thread
  buffers,            \* the BytesIO objects those writers hold in _buffer
  calls               \* each thread's position in write, its arguments and
                      \* locals, and what its last finished call gave

vars ==
  <<byteorder, writer_map, conversion_options, self, call, result, sent,
    writers, buffers, calls>>

\* QWriter(stream, protocol_version, encoding): no _buffer, no _options yet
NewWriter(stream, protocol_version, encoding) ==
  [stream |-> stream, protocol_version |-> protocol_version,
   encoding |-> encoding, buffer |-> <<>>, options |-> <<>>]

NoCall ==
  [data |-> None, msg_type |-> 0, kw |-> <<>>, n |-> 0, after_scs |-> FALSE,
   path |-> "none"]

NoResult == [kind |-> "None", err |-> NoError, value |-> <<>>]

\* the threads, each with a writer of its own: one bound to a sink, one not
Instances == {1, 2}

ConcWriters ==
  <<NewWriter(TRUE, 3, "latin-1"), NewWriter(FALSE, 0, "utf-8")>>

\* a buffer every instance would share
SharedBuffer(i) == 1

\* self._buffer: the BytesIO object instance i holds, its own
BufferOf(i) == i

Idle ==
  [pc |-> "idle", data |-> None, msg_type |-> 0, kw |-> <<>>, written |-> 0,
   size |-> 0, n |-> 0, result |-> NoResult, sent |-> <<>>]

InitConcurrent ==
  /\ writers = ConcWriters
  /\ buffers = [b \in {BufferOf(i) : i \in Instances} |-> <<>>]
  /\ calls = [i \in Instances |-> Idle]

Init ==
  /\ byteorder \in ByteOrders
  /\ writer_map = WriterMapAtImport
  /\ conversion_options = CONVERSION_OPTIONS
  /\ \E stream \in BOOLEAN, pv \in ProtocolVersions, encoding \in Encodings :
       self = NewWriter(stream, pv, encoding)
  /\ call = NoCall
  /\ result = NoResult
  /\ sent = <<>>
  /\ InitConcurrent

\* write(data, msg_type, **options)
write(data, msg_type, kw) ==
  /\ \E out \in {Serialize(self, conversion_options, writer_map, byteorder,
                            data, msg_type, kw)} :
       /\ self' = [self EXCEPT !.buffer = out.buffer, !.options = out.options]
       /\ sent' = sendall(self.stream, out)
       /\ result' = Outcome(self.stream, out)
       /\ call' = [data |-> data, msg_type |-> msg_type, kw |-> kw, n |-> 1,
                   after_scs |-> self.options # <<>>
                                 /\ self.options.single_char_strings,
                   path |-> out.path]
  /\ UNCHANGED <<byteorder, writer_map, conversion_options, writers, buffers,
                 calls>>

Next ==
  \E data \in Values, msg_type \in MessageTypes, kw \in Keywords :
    write(data, msg_type, kw)

Spec == Init /\ [][Next]_vars

\* ------------------------------------------- write, one statement at a time
\* the values the concurrent calls are made with: one that depends on the
\* options, one written in several pieces, one that fails midway
ConcValues ==
  {Str(<<A>>), List(<<None, Str(<<A>>)>>),
   List(<<Str(<<A, A>>), Unclassified, Str(<<A>>)>>)}

sequential == <<self, call, result, sent>>
shared == <<byteorder, writer_map, conversion_options>>

\* what _write(data) of thread i's call writes and raises, as it reads the
\* instance now
Encoding(i) ==
  _write(calls[i].data,
         EncoderView(writers[i], writers[i].options, writer_map, byteorder))

\* line 76: self._buffer = BytesIO()
Allocate(i, data, msg_type, kw) ==
  /\ calls[i].pc = "idle"
  /\ buffers' = [buffers EXCEPT ![BufferOf(i)] = BytesIO(@)]
  /\ calls' = [calls EXCEPT ![i] =
                 [pc |-> "options", data |-> data, msg_type |-> msg_type,
                  kw |-> kw, written |-> 0, size |-> 0, n |-> 0,
                  result |-> NoResult, sent |-> <<>>]]
  /\ UNCHANGED <<writers, shared, sequential>>

\* line 78: self._options = MetaData(...)
SetOptions(i) ==
  /\ calls[i].pc = "options"
  /\ writers' = [writers EXCEPT ![i].options =
                   EffectiveOptions(@, conversion_options, calls[i].kw)]
  /\ calls' = [calls EXCEPT ![i].pc = "header"]
  /\ UNCHANGED <<buffers, shared, sequential>>

\* line 81: the header with its placeholder
WriteHeader(i) ==
  /\ calls[i].pc = "header"
  /\ buffers' = [buffers EXCEPT ![BufferOf(i)] =
                   @ \o Header(calls[i].msg_type, writers[i].encoding,
                               byteorder)]
  /\ calls' = [calls EXCEPT ![i].pc = "payload"]
  /\ UNCHANGED <<writers, shared, sequential>>

\* line 83, one self._buffer.write of the encoders
WriteChunk(i) ==
  /\ calls[i].pc = "payload"
  /\ calls[i].written < Len(Encoding(i).w)
  /\ buffers' = [buffers EXCEPT ![BufferOf(i)] =
                   @ \o Encoding(i).w[calls[i].written + 1]]
  /\ calls' = [calls EXCEPT ![i].written = @ + 1]
  /\ UNCHANGED <<writers, shared, sequential>>

\* line 83, an encoder raises: write is left with nothing sent
Raise(i) ==
  /\ calls[i].pc = "payload"
  /\ calls[i].written = Len(Encoding(i).w)
  /\ Failed(Encoding(i))
  /\ calls' = [calls EXCEPT ![i].pc = "idle", ![i].n = 1,
                            ![i].result = [kind |-> "raised",
                                           err |-> Encoding(i).err,
                                           value |-> <<>>]]
  /\ UNCHANGED <<writers, buffers, shared, sequential>>

\* line 86: data_size = self._buffer.tell()
Tell(i) ==
  /\ calls[i].pc = "payload"
  /\ calls[i].written = Len(Encoding(i).w)
  /\ ~Failed(Encoding(i))
  /\ calls' = [calls EXCEPT ![i].pc = "patch",
                            ![i].size = data_size(buffers[BufferOf(i)])]
  /\ UNCHANGED <<writers, buffers, shared, sequential>>

\* lines 87-88: seek(4), write(pack('i', data_size))
Patch(i) ==
  /\ calls[i].pc = "patch"
  /\ buffers' = [buffers EXCEPT ![BufferOf(i)] =
                   Overwrite(@, 4, struct_pack("i", calls[i].size,
                                               byteorder).bytes)]
  /\ calls' = [calls EXCEPT ![i].pc = "emit"]
  /\ UNCHANGED <<writers, shared, sequential>>

\* lines 91-94: sendall(getvalue()) or return getvalue()
Emit(i) ==
  /\ calls[i].pc = "emit"
  /\ \E out \in {[buffer |-> buffers[BufferOf(i)], err |-> NoError]} :
       calls' = [calls EXCEPT ![i].pc = "idle", ![i].n = 1,
                              ![i].result = Outcome(writers[i].stream, out),
                              ![i].sent = sendall(writers[i].stream, out)]
  /\ UNCHANGED <<writers, buffers, shared, sequential>>

NextConcurrent ==
  \E i \in Instances :
    \/ \E data \in ConcValues, msg_type \in MessageTypes, kw \in Keywords :
         Allocate(i, data, msg_type, kw)
    \/ SetOptions(i)
    \/ WriteHeader(i)
    \/ WriteChunk(i)
    \/ Raise(i)
    \/ Tell(i)
    \/ Patch(i)
    \/ Emit(i)

InitOneHost ==
  /\ byteorder \in ByteOrders
  /\ writer_map = WriterMapAtImport
  /\ conversion_options = CONVERSION_OPTIONS
  /\ self = NewWriter(FALSE, 3, "latin-1")
  /\ call = NoCall
  /\ result = NoResult
  /\ sent = <<>>
  /\ InitConcurrent

SpecConcurrent == InitOneHost /\ [][NextConcurrent]_vars

\* --------------------------------------------------------------- properties
Called == call.n > 0
Raises == Called /\ result.kind = "raised"
Succeeded == Called /\ result.kind # "raised"

\* the message the last call emitted: returned, or handed to sendall
Message ==
  IF result.kind = "bytes" THEN result.value
  ELSE IF sent # <<>> THEN sent[1] ELSE <<>>

\* what the encoders read during the last call
CallView == EncoderView(self, self.options, writer_map, byteorder)

\* the bytes of the message after its first n
After(n) == SubSeq(Message, n + 1, Len(Message))

\* C1: after every write that completes, the 4-byte field at offset 4 of the
\* emitted message, read in host byte order, is the byte length of the whole
\* message, header included, whatever the shape of the payload.
C1_TotalLength ==
  Succeeded =>
    /\ Len(Message) >= 8
    /\ Unpack32(SubSeq(Message, 5, 8), byteorder) = Len(Message)

C1_Witness ==
  /\ Succeeded
  /\ call.data.k = "QKeyedTable"
  /\ Len(Message) > 40
  /\ Unpack32(SubSeq(Message, 5, 8), byteorder) = Len(Message)

\* C2: when encoding the value fails, at any depth and for any reason, the
\* failure reaches the caller and the call makes no sendall invocation.
C2_NothingSentOnFailure ==
  (Called /\ Failed(_write(call.data, CallView))) =>
    /\ result.kind = "raised"
    /\ result.err = _write(call.data, CallView).err
    /\ sent = <<>>

C2_Witness ==
  /\ Raises
  /\ self.stream
  /\ call.data.k = "tuple"
  /\ result.err = UnicodeEncodeError
  /\ Len(self.buffer) > 8
  /\ sent = <<>>

\* C3: whatever calls came before on the instance, a write gives its caller
\* and the sink what the same call gives on a newly constructed writer with the
\* same stream, protocol version and encoding.
FreshOut ==
  Serialize(NewWriter(self.stream, self.protocol_version, self.encoding),
            CONVERSION_OPTIONS, WriterMapAtImport, byteorder,
            call.data, call.msg_type, call.kw)

C3_AsOnFreshInstance ==
  Called =>
    /\ result = Outcome(self.stream, FreshOut)
    /\ sent = sendall(self.stream, FreshOut)

C3_Witness ==
  /\ Succeeded
  /\ call.after_scs
  /\ call.kw = <<>>
  /\ call.data = Str(<<A>>)
  /\ After(8) = <<SByte(QCHAR), A>>

\* the text of a str or bytes argument in the writer's encoding
Content(data) ==
  IF data.k = "str" THEN encode(data.s, self.encoding)
  ELSE [ok |-> TRUE, bytes |-> data.s]

IsString(data) == data.k \in {"str", "bytes"}

\* C5 as stated: a one-character string is a character atom when
\* single_char_strings is unset and tag, 4-byte count 1, one content byte when
\* it is set; any other string is tag, 4-byte count, bytes.
C5_AsStated ==
  (Called /\ IsString(call.data)) =>
    LET s == call.data.s
    IN /\ Succeeded
       /\ After(8) =
            IF Len(s) = 1 /\ ~self.options.single_char_strings
            THEN <<SByte(QCHAR), s[1]>>
            ELSE <<QSTRING>> \o Host(LE(Len(s), 4), byteorder)
                 \o Content(call.data).bytes

\* C5, amended: a one-character string with single_char_strings unset is a
\* character atom (tag, one byte) when its code point fits the atom's signed
\* byte, and the call fails otherwise; every other string is tag, pad byte,
\* 4-byte character count, encoded bytes, and the call fails when the text
\* cannot be encoded.
C5_SingleCharRule ==
  (Called /\ IsString(call.data)) =>
    LET s == call.data.s
    IN IF Len(s) = 1 /\ ~self.options.single_char_strings
       THEN IF s[1] <= 127
            THEN Succeeded /\ After(8) = <<SByte(QCHAR), s[1]>>
            ELSE Raises
       ELSE IF Content(call.data).ok
            THEN /\ Succeeded
                 /\ After(8) = <<QSTRING, 0>> \o Host(LE(Len(s), 4), byteorder)
                               \o Content(call.data).bytes
            ELSE Raises

C5_Witness ==
  /\ Succeeded
  /\ call.data = Str(<<Euro>>)
  /\ self.options.single_char_strings
  /\ Len(After(8)) = 9

\* C6 as stated: a 10-byte header, the total length in its last four bytes,
\* the payload from offset 10, and 12 bytes in all for the null payload.
C6_AsStated ==
  Succeeded =>
    /\ Message[1] = ENDIANESS(byteorder)
    /\ Message[2] = call.msg_type
    /\ SubSeq(Message, 3, 6) = <<0, 0, 0, 0>>
    /\ Unpack32(SubSeq(Message, 7, 10), byteorder) = Len(Message)
    /\ After(10) = Flatten(_write(call.data, CallView).w)
    /\ (call.data = None => Len(Message) = 12)

\* C6, amended: an 8-byte header (marker, message type, two zero bytes, the
\* 4-byte total length), the payload from offset 8, and 10 bytes in all for
\* the null payload.
C6_EightByteHeader ==
  Succeeded =>
    /\ Message[1] = ENDIANESS(byteorder)
    /\ Message[2] = call.msg_type
    /\ SubSeq(Message, 3, 4) = <<0, 0>>
    /\ Unpack32(SubSeq(Message, 5, 8), byteorder) = Len(Message)
    /\ After(8) = Flatten(_write(call.data, CallView).w)
    /\ (call.data = None => Len(Message) = 10 /\ After(8) = <<QNULL, 0>>)

C6_Witness ==
  /\ Succeeded
  /\ call.data = None
  /\ call.msg_type = 1
  /\ Len(Message) = 10

\* the order of dispatch: null, exception, registered kind, catalogue
ExpectedPath(data) ==
  IF data.k = "NoneType" THEN "_write_null"
  ELSE IF IsException(data) THEN "_write_error"
  ELSE IF data.k \in DOMAIN WriterMapAtImport THEN WriterMapAtImport[data.k]
  ELSE IF data.k \in DOMAIN Q_TYPE THEN "_write_atom"
  ELSE "raise"

\* the first element of a list that no path accepts, 0 if there is none
FirstUnclassified(items) ==
  LET bad == {i \in 1..Len(items) : ExpectedPath(items[i]) = "raise"}
  IN IF bad = {} THEN 0 ELSE CHOOSE i \in bad : \A j \in bad : i <= j

\* C9: the dispatcher takes the path the order null, exception, registered
\* kind, catalogue gives; a value no path accepts fails naming its kind and
\* adds no byte: alone, the buffer holds the header only, and as the first
\* such element of a general list the buffer holds the header, the list's
\* head and the elements before it.
C9_Dispatch ==
  Called =>
    LET d == call.data
        head == Header(call.msg_type, self.encoding, byteorder)
    IN /\ call.path = ExpectedPath(d)
       /\ (d.k = "NoneType" => After(8) = <<QNULL, 0>>)
       /\ (ExpectedPath(d) = "raise" =>
             /\ Raises
             /\ result.err = Unsupported(d.k)
             /\ self.buffer = head)
       /\ (d.k \in {"list", "tuple"} /\ FirstUnclassified(d.items) > 0
           /\ (\A i \in 1..(FirstUnclassified(d.items) - 1) :
                 ~Failed(_write(d.items[i], CallView))) =>
             LET j == FirstUnclassified(d.items)
             IN /\ Raises
                /\ result.err = Unsupported(d.items[j].k)
                /\ self.buffer =
                     head \o pack_bxi(QGENERAL_LIST, Len(d.items), byteorder)
                     \o Flatten([i \in 1..(j - 1) |->
                                   Flatten(_write(d.items[i], CallView).w)]))

C9_Witness ==
  /\ Raises
  /\ call.data = List(<<Str(<<A, A>>), Unclassified, Str(<<A>>)>>)
  /\ result.err = Unsupported("complex")
  /\ Len(self.buffer) = 22

\* values whose encoding needs protocol version 3: GUID scalars, lists and
\* table columns
NeedsGuid(d) ==
  \/ d.k = "UUID"
  \/ d.k = "QList" /\ abs(d.meta.qtype) = abs(QGUID)
  \/ d.k = "QTable" /\ \E c \in 1..Len(d.meta) : abs(d.meta[c]) = abs(QGUID)

NanosecondTags == {QTIMESTAMP_LIST, QTIMESPAN_LIST}

\* values whose encoding needs protocol version 1: timestamps and timespans
\* as wrapper, host-native scalar, typed list, plain array or table column
NeedsNanoseconds(d) ==
  \/ d.k = "QTemporal" /\ abs(d.meta.qtype) \in NanosecondTags
  \/ d.k \in {"datetime64", "timedelta64"}
     /\ d.dtype \in {"datetime64[ns]", "timedelta64[ns]"}
  \/ d.k = "QTemporalList" /\ abs(d.meta.qtype) \in NanosecondTags
  \/ d.k = "ndarray" /\ d.dtype \in {"datetime64[ns]", "timedelta64[ns]"}
  \/ d.k = "QTable" /\ \E c \in 1..Len(d.meta) : abs(d.meta[c]) \in NanosecondTags

\* C4: a GUID under a protocol version below 3, and a timestamp or timespan
\* under protocol version 0, fail with the protocol version violation naming
\* "Guid" or the tag in hexadecimal, and with nothing else; under version 3,
\* respectively 1, and above they are encoded.
C4_VersionGate ==
  Called =>
    /\ (NeedsGuid(call.data) =>
          IF self.protocol_version < 3
          THEN Raises /\ result.err = VersionViolation("Guid")
          ELSE Succeeded)
    /\ (NeedsNanoseconds(call.data) =>
          IF self.protocol_version < 1
          THEN /\ Raises
               /\ \E tag \in NanosecondTags :
                    result.err \in {VersionViolation(hex(tag)),
                                    VersionViolation(hex(0 - tag))}
          ELSE Succeeded)

\* the elements of a column of the given tag, as stored
ColumnBytes(tag, column) ==
  CASE abs(tag) = QSYMBOL_LIST ->
         Flatten([i \in 1..Len(column.items) |-> column.items[i] \o <<0>>])
    [] abs(tag) = abs(QGUID) ->
         Flatten([i \in 1..Len(column.items) |-> column.items[i].bytes])
    [] abs(tag) \in NanosecondTags ->
         tostring(array_to_raw_qtemporal(column, 0 - abs(tag)), byteorder)
    [] OTHER -> tostring(column, byteorder)

\* one typed list block: list tag, attribute byte, count, elements
ListBlock(tag, column) ==
  <<abs(tag), 0>> \o Host(LE(Len(column.items), 4), byteorder)
  \o ColumnBytes(tag, column)

\* C7: the payload of a table is table tag, filler byte, dictionary tag, the
\* symbol list of the column names, general list tag and column count, then
\* one typed list block per column, in order, carrying the column's declared
\* tag, for every row count; no column is emitted as an atom.
C7_TableLayout ==
  (Succeeded /\ call.data.k = "QTable") =>
    LET d == call.data
    IN After(8) =
         <<QTABLE, 0, QDICTIONARY>>
         \o ListBlock(QSYMBOL_LIST,
                      [k |-> "ndarray", dtype |-> "S", items |-> d.names])
         \o <<QGENERAL_LIST, 0>> \o Host(LE(Len(d.columns), 4), byteorder)
         \o Flatten([c \in 1..Len(d.columns) |->
                       ListBlock(d.meta[c], d.columns[c])])

\* values that go through the atom encoder: the catalogue's atom kinds, and
\* one-character strings when single_char_strings is unset
AtomEncoded(d) ==
  \/ call.path = "_write_atom"
  \/ IsString(d) /\ Len(d.s) = 1 /\ ~self.options.single_char_strings

\* C10: whenever atom encoding fails, for a tag without a layout or a value
\* that does not fit the layout, the failure is the serialization exception
\* "Unable to serialize type".
C10_AtomFailures ==
  (Raises /\ AtomEncoded(call.data)) =>
    /\ result.err.exc = "QWriterException"
    /\ result.err.msg = "Unable to serialize type"

\* the call of thread i, run alone on a newly constructed writer
Alone(i) ==
  Serialize(ConcWriters[i], CONVERSION_OPTIONS, WriterMapAtImport, byteorder,
            calls[i].data, calls[i].msg_type, calls[i].kw)

\* the buffer of the call of thread i run alone, where thread i is now
AloneBuffer(i) ==
  LET head == Header(calls[i].msg_type, ConcWriters[i].encoding, byteorder)
      r == _write(calls[i].data,
                  EncoderView(ConcWriters[i], Alone(i).options,
                              WriterMapAtImport, byteorder))
  IN CASE calls[i].pc \in {"options", "header"} -> <<>>
       [] calls[i].pc = "payload" ->
            head \o Flatten(SubSeq(r.w, 1, calls[i].written))
       [] calls[i].pc = "patch" -> head \o Flatten(r.w)
       [] OTHER -> Alone(i).buffer

\* C8: under every interleaving of the statements of write calls on distinct
\* instances, each thread's buffer is at every step what it is when its call
\* runs alone, so is its length patch and its options, each finished call
\* gave its caller and its sink what it gives alone, and the encoder map and
\* the default options are as they were at import.
C8_Independent ==
  /\ writer_map = WriterMapAtImport
  /\ conversion_options = CONVERSION_OPTIONS
  /\ \A i \in Instances :
       /\ calls[i].pc # "idle" => buffers[BufferOf(i)] = AloneBuffer(i)
       /\ calls[i].pc \notin {"idle", "options"} =>
            writers[i].options = Alone(i).options
       /\ calls[i].pc = "patch" => calls[i].size = Len(AloneBuffer(i))
       /\ (calls[i].pc = "idle" /\ calls[i].n > 0) =>
            /\ calls[i].result = Outcome(ConcWriters[i].stream, Alone(i))
            /\ calls[i].sent = sendall(ConcWriters[i].stream, Alone(i))

\* both threads inside write at once, each past its header, with different
\* values and options
C8_Witness ==
  /\ calls[1].pc = "payload" /\ calls[1].written = 2
  /\ calls[2].pc = "patch"
  /\ calls[1].data # calls[2].data
  /\ calls[1].kw # calls[2].kw
  /\ Len(buffers[BufferOf(1)]) > 8
  /\ Len(buffers[BufferOf(2)]) > 8
  /\ buffers[BufferOf(1)] # buffers[BufferOf(2)]
====
